---- MODULE Spec2Model ----
(***************************************************************************)
(* Model of the cgroup-v2 judge core (judge_core_cgroup.cpp).              *)
(*                                                                         *)
(* Spec        main -> judge_core -> loadLimits / compileProgram /         *)
(*             runProgram, with the forked child and the two pipes as a    *)
(*             second process.                                             *)
(* FairSpec    Spec with the fairness the scheduler and the kernel give.   *)
(* SpecLimits  parseJsonNumber / loadLimits as functions of the file text, *)
(*             with 64-bit long long and 32-bit int arithmetic.            *)
(***************************************************************************)
EXTENDS Integers, Sequences, FiniteSets, TLC

(***************************************************************************)
(* Bounds of the model.                                                    *)
(***************************************************************************)
MaxTimeLimit == 1      \* time_limit ranges over 1..MaxTimeLimit (ms)
MaxMemKB == 1          \* memory_limit ranges over 1024*(1..MaxMemKB) (bytes)
MaxOutLimit == 1       \* output_limit ranges over 1..MaxOutLimit (bytes)
MaxByte == 1           \* byte values 0..MaxByte; 0 is the zero byte
MaxOut == 2            \* bytes the child writes to its stdout at most
MaxErr == 1            \* bytes the child writes to its stderr at most
MaxExit == 1           \* exit codes of the child range over 0..MaxExit
MaxArgc == 5           \* argc ranges over 1..MaxArgc
PipeCap == 1           \* bytes a pipe holds before a write blocks

(***************************************************************************)
(* Program constants.                                                      *)
(***************************************************************************)
SIGABRT == 6
SIGFPE == 8
SIGKILL == 9
SIGSEGV == 11
SIGPIPE == 13
SIGXCPU == 24
SIGXFSZ == 25
BufSize == 4096        \* char buffer[4096]

Signals == {SIGABRT, SIGFPE, SIGKILL, SIGSEGV, SIGPIPE, SIGXCPU, SIGXFSZ}
Bytes == 0..MaxByte
ExitCodes == 0..MaxExit

Min(a, b) == IF a < b THEN a ELSE b

VARIABLES
    argc,           \* main: argument count
    pc,             \* position of the supervising flow of control
    limits,         \* judge_core: Limits limits
    result,         \* judge_core: JudgeResult result
    run_result,     \* runProgram: JudgeResult result
    fault,          \* the sandbox fault of the run stage that occurred, or "none"
    thrown,         \* an exception is propagating / was caught in judge_core
    run_entered,    \* runProgram has been called
    cg,             \* CgroupManager object and its node in the cgroup filesystem
    fds,            \* supervisor's descriptors of the two pipes
    child,          \* the forked child
    out_buf,        \* bytes in the stdout pipe
    err_buf,        \* bytes in the stderr pipe
    written,        \* number of bytes the child has written to stdout, stderr
    drain,          \* locals of the drain loop
    exe_exists,     \* the file source_file + ".out" exists
    core_out,       \* number of result objects written to the core's stdout
    core_exit,      \* exit code of the core process, -1 while it runs
    hist,           \* what happened in the run: bytes read, binding failure
    enc,            \* SpecJson: the JudgeResult and resultToJson's text
    fn,             \* SpecTime, SpecCpu: the arguments and the values computed
    two,            \* SpecTwo: two instances that drew the same cgroup name
    ll              \* SpecLimits: the configuration file and loadLimits' result

vars == <<argc, pc, limits, result, run_result, fault, thrown, run_entered, cg, fds, child,
          out_buf, err_buf, written, drain, exe_exists, core_out, core_exit,
          hist, enc, fn, two, ll>>

(***************************************************************************)
(* Data.                                                                   *)
(***************************************************************************)
\* struct Limits, over the small values of this model
LimitChoices ==
    [time_limit : 1..MaxTimeLimit,
     memory_limit : {1024 * k : k \in 1..MaxMemKB},
     output_limit : 1..MaxOutLimit,
     compile_timeout : {1},
     stack_limit : {8192 * 1024}]

\* judge_core: JudgeResult result; (strings empty, numbers never read before
\* they are assigned)
NoResult ==
    [status |-> "", time_used |-> 0, mem_used |-> 0, exit_code |-> 0,
     error_message |-> <<>>, stdout_content |-> <<>>, output_len |-> 0,
     allocated_cpu |-> ""]

NoLimits ==
    [time_limit |-> 0, memory_limit |-> 0, output_limit |-> 0,
     compile_timeout |-> 0, stack_limit |-> 0]

\* CgroupManager(): created(false); the directory does not exist yet
NewCgroup ==
    [created |-> FALSE, dir |-> FALSE, memory_max |-> FALSE,
     cpuset_cpus |-> FALSE, cpuset_mems |-> FALSE, procs |-> FALSE,
     rmdir_calls |-> 0]

NoFds == [out_r |-> "none", out_w |-> "none", err_r |-> "none", err_w |-> "none"]

\* failed: the calls between fork and exec that failed in the child
NoChild == [state |-> "none", kind |-> "none", code |-> 0, bound |-> FALSE,
            failed |-> {}]

\* read_out: the bytes read() returned from the stdout pipe, in order;
\* bind_failed: forceCpuBinding returned false
NoHist == [read_out |-> <<>>, bind_failed |-> FALSE]

NoDrain == [stdout_output |-> <<>>, stderr_output |-> <<>>,
            stdout_done |-> FALSE, stderr_done |-> FALSE]

ChildAlive == child.state \in {"setup", "running", "blocked"}

(***************************************************************************)
(* compileProgram (lines 554-605).                                         *)
(***************************************************************************)
\* the result record compileProgram starts from
CompileInit ==
    [status |-> "CE", time_used |-> 0, mem_used |-> 0, exit_code |-> 0,
     error_message |-> <<>>, stdout_content |-> <<>>, output_len |-> 0,
     allocated_cpu |-> ""]

\* CompileResult that stores the wall time in mem_used as well
CompileResult_MemWall(popen_ok, compile_result, wall, lim) ==
    IF ~popen_ok
    THEN [CompileInit EXCEPT !.error_message =
              <<"Failed to create compilation process">>]
    ELSE [CompileInit EXCEPT
              !.time_used = wall, !.mem_used = wall,
              !.status = IF compile_result # 0 \/ wall > lim.compile_timeout
                         THEN "CE" ELSE "OK",
              !.error_message = IF compile_result # 0 THEN <<"compile_output">>
                                ELSE IF wall > lim.compile_timeout
                                THEN <<"Compilation timeout">> ELSE <<>>]

\* popen_ok: popen returned a pipe; compile_result: pclose's value;
\* wall: measured wall time in ms
CompileResult(popen_ok, compile_result, wall, lim) ==
    IF ~popen_ok
    THEN [CompileInit EXCEPT !.error_message =
              <<"Failed to create compilation process">>]
    ELSE IF compile_result # 0
    THEN [CompileInit EXCEPT !.time_used = wall,
                             !.error_message = <<"compile_output">>,
                             !.status = "CE"]
    ELSE IF wall > lim.compile_timeout
    THEN [CompileInit EXCEPT !.time_used = wall, !.status = "CE",
                             !.error_message = <<"Compilation timeout">>]
    ELSE [CompileInit EXCEPT !.time_used = wall, !.status = "OK"]

(***************************************************************************)
(* runProgram: the result it starts from (lines 609-615).                  *)
(***************************************************************************)
RunInit ==
    [status |-> "RE", time_used |-> 0, mem_used |-> 0, exit_code |-> -1,
     error_message |-> <<>>, stdout_content |-> <<>>, output_len |-> 0,
     allocated_cpu |-> ""]

\* buffer[bytes_read] = '\0'; output += buffer;  appends the bytes of the
\* chunk up to, not including, its first zero byte
RECURSIVE CStr(_)
CStr(chunk) ==
    IF chunk = <<>> \/ Head(chunk) = 0 THEN <<>>
    ELSE <<Head(chunk)>> \o CStr(Tail(chunk))

\* result.mem_used = (memory_peak > 0) ? memory_peak : usage.ru_maxrss * 1024
MemUsed(memory_peak, ru_maxrss) ==
    IF memory_peak > 0 THEN memory_peak ELSE ru_maxrss * 1024

\* ClassifyExited without the memory comparison
ClassifyExited_SkipMem(r, code, stderr_output, lim) ==
    IF code = 0
    THEN [r EXCEPT !.exit_code = code,
                   !.status = IF r.time_used > lim.time_limit THEN "TLE"
                              ELSE IF r.output_len > lim.output_limit THEN "OLE"
                              ELSE "OK"]
    ELSE [r EXCEPT !.exit_code = code, !.status = "RE",
                   !.error_message =
                       <<"Program exited with non-zero code: ", ToString(code)>>]

\* ClassifyExited with >= in place of > in the time comparison
ClassifyExited_TimeGe(r, code, stderr_output, lim) ==
    IF code = 0
    THEN [r EXCEPT !.exit_code = code,
                   !.status = IF r.time_used >= lim.time_limit THEN "TLE"
                              ELSE IF r.mem_used > lim.memory_limit THEN "MLE"
                              ELSE IF r.output_len > lim.output_limit THEN "OLE"
                              ELSE "OK"]
    ELSE [r EXCEPT !.exit_code = code, !.status = "RE",
                   !.error_message =
                       <<"Program exited with non-zero code: ", ToString(code)>>]

\* verdict of a child that exited normally (lines 829-863)
ClassifyExited(r, code, stderr_output, lim) ==
    IF code = 0
    THEN [r EXCEPT !.exit_code = code,
                   !.status = IF r.time_used > lim.time_limit THEN "TLE"
                              ELSE IF r.mem_used > lim.memory_limit THEN "MLE"
                              ELSE IF r.output_len > lim.output_limit THEN "OLE"
                              ELSE "OK"]
    ELSE [r EXCEPT !.exit_code = code,
                   !.status = "RE",
                   !.error_message =
                       <<"Program exited with non-zero code: ", ToString(code)>>
                       \o (IF stderr_output # <<>>
                           THEN <<"\\nStderr: ", "stderr_output">> ELSE <<>>)]

\* ClassifySignaled whose SIGKILL case does not look at the memory
ClassifySignaled_KillIsTle(r, signal_num, lim) ==
    LET e == [r EXCEPT !.exit_code = 128 + signal_num] IN
    CASE signal_num \in {SIGXCPU, SIGKILL} ->
           [e EXCEPT !.status = "TLE",
                     !.error_message = <<"Time limit exceeded">>]
      [] signal_num = SIGABRT /\ e.mem_used > lim.memory_limit ->
           [e EXCEPT !.status = "MLE",
                     !.error_message =
                         <<"Memory limit exceeded (allocation failed)">>]
      [] OTHER ->
           [e EXCEPT !.status = "RE",
                     !.error_message = <<"Program terminated by signal">>]

\* verdict of a child terminated by a signal (lines 864-914)
ClassifySignaled(r, signal_num, lim) ==
    LET e == [r EXCEPT !.exit_code = 128 + signal_num] IN
    CASE signal_num = SIGXCPU ->
           [e EXCEPT !.status = "TLE",
                     !.error_message = <<"Time limit exceeded (SIGXCPU)">>]
      [] signal_num = SIGKILL ->
           IF e.mem_used > lim.memory_limit
           THEN [e EXCEPT !.status = "MLE",
                          !.error_message = <<"Memory limit exceeded (cgroup)">>]
           ELSE [e EXCEPT !.status = "TLE",
                          !.error_message = <<"Time limit exceeded (SIGKILL)">>]
      [] signal_num = SIGSEGV ->
           [e EXCEPT !.status = "RE",
                     !.error_message = <<"Segmentation fault">>]
      [] signal_num = SIGFPE ->
           [e EXCEPT !.status = "RE",
                     !.error_message = <<"Floating point exception">>]
      [] signal_num = SIGABRT ->
           IF e.mem_used > lim.memory_limit
           THEN [e EXCEPT !.status = "MLE",
                          !.error_message =
                              <<"Memory limit exceeded (allocation failed)">>]
           ELSE [e EXCEPT !.status = "RE",
                          !.error_message = <<"Program aborted">>]
      [] OTHER ->
           [e EXCEPT !.status = "RE",
                     !.error_message =
                         <<"Program terminated by signal ", ToString(signal_num)>>]

\* lines 817-914: measurements, captured output, verdict
Classify(r, kind, code, wall, memory_peak, ru_maxrss, stdout_output, stderr_output, lim) ==
    LET m == [r EXCEPT !.time_used = wall,
                       !.mem_used = MemUsed(memory_peak, ru_maxrss),
                       !.stdout_content = stdout_output,
                       !.output_len = Len(stdout_output)]
    IN  IF kind = "exit" THEN ClassifyExited(m, code, stderr_output, lim)
        ELSE ClassifySignaled(m, code, lim)

\* Cleanup whose rmdir leaves the directory in place
Cleanup_KeepsDir(c, alive) ==
    IF c.created
    THEN [c EXCEPT !.created = FALSE, !.rmdir_calls = @ + 1]
    ELSE c

\* CgroupManager::cleanup (lines 408-416); rmdir removes the directory unless
\* a live process is still a member of the node
Cleanup(c, alive) ==
    IF c.created
    THEN [c EXCEPT !.created = FALSE,
                   !.rmdir_calls = @ + 1,
                   !.dir = IF c.procs /\ alive THEN @ ELSE FALSE]
    ELSE c

(***************************************************************************)
(* Measurements the environment can produce.                               *)
(***************************************************************************)
WallChoices == 0..(MaxTimeLimit + 1)
PeakChoices == {-1, 0} \cup {1024 * k + d : k \in 1..MaxMemKB, d \in {-1, 0, 1}}
RssChoices == 0..(MaxMemKB + 1)
CpuChoices == {"", "0"}

\* the state of main before it starts
MainInit ==
    /\ pc = "main"
    /\ hist = NoHist
    /\ limits = NoLimits
    /\ result = NoResult
    /\ run_result = NoResult
    /\ fault = "none"
    /\ thrown = FALSE
    /\ run_entered = FALSE
    /\ cg = NewCgroup
    /\ fds = NoFds
    /\ child = NoChild
    /\ out_buf = <<>>
    /\ err_buf = <<>>
    /\ written = [out |-> 0, err |-> 0]
    /\ drain = NoDrain
    /\ exe_exists = FALSE
    /\ core_out = 0
    /\ core_exit = -1

NoLoad == [pc |-> "idle"]
NoEnc == [pc |-> "idle"]
NoFn == [pc |-> "idle"]
NoTwo == [pc |-> "idle"]

Init ==
    /\ argc \in 1..MaxArgc
    /\ MainInit
    /\ ll = NoLoad
    /\ enc = NoEnc
    /\ fn = NoFn
    /\ two = NoTwo

(***************************************************************************)
(* main (lines 1013-1030).                                                 *)
(***************************************************************************)
\* MainExitCode that returns 0 after the usage line too
MainExitCode_AlwaysZero(n) == IF n # 4 THEN 0 ELSE 0

\* exit code of main for an argument count
MainExitCode(n) == IF n # 4 THEN 1 ELSE 0

\* argc != 4: usage line on the diagnostic stream, return 1
Main_usage ==
    /\ pc = "main"
    /\ argc # 4
    /\ pc' = "exited"
    /\ core_exit' = MainExitCode(argc)
    /\ UNCHANGED <<ll, enc, fn, two, hist, argc, limits, result, run_result, fault, thrown, run_entered,
                   cg, fds, child, out_buf, err_buf, written, drain, exe_exists,
                   core_out>>

\* argc == 4: call judge_core
Main_call ==
    /\ pc = "main"
    /\ argc = 4
    /\ pc' = "jc_load"
    /\ UNCHANGED <<ll, enc, fn, two, hist, argc, limits, result, run_result, fault, thrown, run_entered,
                   cg, fds, child, out_buf, err_buf, written, drain, exe_exists,
                   core_out, core_exit>>

\* cout << resultToJson(result) << endl; return 0;
Main_print ==
    /\ pc = "main_print"
    /\ core_out' = core_out + 1
    /\ core_exit' = MainExitCode(argc)
    /\ pc' = "exited"
    /\ UNCHANGED <<ll, enc, fn, two, hist, argc, limits, result, run_result, fault, thrown, run_entered,
                   cg, fds, child, out_buf, err_buf, written, drain, exe_exists>>

(***************************************************************************)
(* judge_core (lines 975-1011).                                            *)
(***************************************************************************)
\* Limits limits = loadLimits(limits_file); it may throw (std::bad_alloc)
JudgeCore_loadLimits ==
    /\ pc = "jc_load"
    /\ \/ /\ limits' \in LimitChoices
          /\ pc' = "jc_compile"
          /\ UNCHANGED thrown
       \/ /\ thrown' = TRUE
          /\ pc' = "jc_catch"
          /\ UNCHANGED limits
    /\ UNCHANGED <<ll, enc, fn, two, hist, argc, result, run_result, fault, run_entered, cg, fds, child,
                   out_buf, err_buf, written, drain, exe_exists, core_out,
                   core_exit>>

\* if (result.status != "OK") return result;
AfterCompile(r) == IF r.status # "OK" THEN "main_print" ELSE "run_create"

\* result = compileProgram(...); the toolchain writes the executable when it
\* exits with 0; the stage may throw while it collects the diagnostics
JudgeCore_compileProgram ==
    /\ pc = "jc_compile"
    /\ \/ \E popen_ok \in BOOLEAN, compile_result \in {0, 1}, wall \in WallChoices :
             /\ result' = CompileResult(popen_ok, compile_result, wall, limits)
             /\ exe_exists' = (popen_ok /\ compile_result = 0)
             /\ pc' = AfterCompile(result')
             /\ UNCHANGED thrown
       \/ /\ thrown' = TRUE
          /\ exe_exists' \in BOOLEAN
          /\ pc' = "jc_catch"
          /\ UNCHANGED result
    /\ UNCHANGED <<ll, enc, fn, two, hist, argc, limits, run_result, fault, run_entered, cg, fds, child,
                   out_buf, err_buf, written, drain, core_out, core_exit>>

\* unlink(executable.c_str()); reached only when runProgram returned
JudgeCore_unlink ==
    /\ pc = "jc_unlink"
    /\ exe_exists' = FALSE
    /\ pc' = "main_print"
    /\ UNCHANGED <<ll, enc, fn, two, hist, argc, limits, result, run_result, fault, thrown, run_entered,
                   cg, fds, child, out_buf, err_buf, written, drain, core_out,
                   core_exit>>

\* CatchResult that leaves time_used as it was
CatchResult_KeepsTime(r) ==
    [r EXCEPT !.status = "SE",
              !.error_message = <<"System error: ", "e.what()">>,
              !.mem_used = 0, !.exit_code = -1,
              !.output_len = 0, !.allocated_cpu = ""]

\* catch (const exception &e)
CatchResult(r) ==
    [r EXCEPT !.status = "SE",
              !.error_message = <<"System error: ", "e.what()">>,
              !.time_used = 0, !.mem_used = 0, !.exit_code = -1,
              !.output_len = 0, !.allocated_cpu = ""]

JudgeCore_catch ==
    /\ pc = "jc_catch"
    /\ result' = CatchResult(result)
    /\ pc' = "main_print"
    /\ UNCHANGED <<ll, enc, fn, two, hist, argc, limits, run_result, fault, thrown, run_entered, cg, fds,
                   child, out_buf, err_buf, written, drain, exe_exists, core_out,
                   core_exit>>

(***************************************************************************)
(* runProgram, supervising side (lines 607-663, 713-918).  Every return    *)
(* assigns the local result to judge_core's result and runs the            *)
(* CgroupManager destructor.                                               *)
(***************************************************************************)
\* an early return of runProgram with an explanatory message
FaultResult(r, msg) == [r EXCEPT !.error_message = <<msg>>]

\* CgroupManager cgroup; if (!cgroup.create()) ...
RunProgram_create ==
    /\ pc = "run_create"
    /\ run_entered' = TRUE
    /\ \/ /\ cg' = [NewCgroup EXCEPT !.created = TRUE, !.dir = TRUE]
          /\ run_result' = RunInit
          /\ pc' = "run_setmem"
          /\ UNCHANGED <<result, fault>>
       \/ /\ run_result' = FaultResult(RunInit, "Failed to create cgroup")
          /\ result' = run_result'
          /\ fault' = "create"
          /\ cg' = Cleanup(NewCgroup, FALSE)
          /\ pc' = "jc_unlink"
    /\ UNCHANGED <<ll, enc, fn, two, hist, argc, limits, thrown, fds, child, out_buf, err_buf, written,
                   drain, exe_exists, core_out, core_exit>>

\* RunProgram_setMemoryLimit that goes on when the write failed
RunProgram_setMemoryLimit_Unchecked ==
    /\ pc = "run_setmem"
    /\ \E written_ok \in BOOLEAN : cg' = [cg EXCEPT !.memory_max = written_ok]
    /\ pc' = "run_setcpu"
    /\ UNCHANGED <<result, run_result, fault>>
    /\ UNCHANGED <<ll, enc, fn, two, hist, argc, limits, thrown, run_entered, fds, child, out_buf,
                   err_buf, written, drain, exe_exists, core_out, core_exit>>

\* if (!cgroup.setMemoryLimit(limits.memory_limit)) ...
RunProgram_setMemoryLimit ==
    /\ pc = "run_setmem"
    /\ \/ /\ cg' = [cg EXCEPT !.memory_max = TRUE]
          /\ pc' = "run_setcpu"
          /\ UNCHANGED <<result, run_result, fault>>
       \/ /\ run_result' =
                FaultResult(run_result, "Failed to set memory limit in cgroup")
          /\ result' = run_result'
          /\ fault' = "memory_max"
          /\ cg' = Cleanup(cg, FALSE)
          /\ pc' = "jc_unlink"
    /\ UNCHANGED <<ll, enc, fn, two, hist, argc, limits, thrown, run_entered, fds, child, out_buf,
                   err_buf, written, drain, exe_exists, core_out, core_exit>>

\* if (!cgroup.setCpuLimit()) ...; result.allocated_cpu = getAllocatedCpu();
\* setCpuLimit writes cpuset.cpus, then cpuset.mems, and fails at either
RunProgram_setCpuLimit ==
    /\ pc = "run_setcpu"
    /\ \/ \E cpu \in CpuChoices :
             /\ cg' = [cg EXCEPT !.cpuset_cpus = TRUE, !.cpuset_mems = TRUE]
             /\ run_result' = [run_result EXCEPT !.allocated_cpu = cpu]
             /\ pc' = "run_pipe"
             /\ UNCHANGED <<result, fault>>
       \/ \E cpus_written \in BOOLEAN :
             /\ run_result' =
                   FaultResult(run_result, "Failed to set CPU limit in cgroup")
             /\ result' = run_result'
             /\ fault' = "cpuset"
             /\ cg' = Cleanup([cg EXCEPT !.cpuset_cpus = cpus_written], FALSE)
             /\ pc' = "jc_unlink"
    /\ UNCHANGED <<ll, enc, fn, two, hist, argc, limits, thrown, run_entered, fds, child, out_buf,
                   err_buf, written, drain, exe_exists, core_out, core_exit>>

\* if (pipe(stdout_pipe) == -1 || pipe(stderr_pipe) == -1) ...
RunProgram_pipe ==
    /\ pc = "run_pipe"
    /\ \/ /\ fds' = [out_r |-> "open", out_w |-> "open",
                     err_r |-> "open", err_w |-> "open"]
          /\ pc' = "run_fork"
          /\ UNCHANGED <<result, run_result, fault, cg>>
       \/ \E first_ok \in BOOLEAN :
             /\ fds' = IF first_ok
                       THEN [fds EXCEPT !.out_r = "open", !.out_w = "open"]
                       ELSE fds
             /\ run_result' = FaultResult(run_result, "Failed to create pipes")
             /\ result' = run_result'
             /\ fault' = "pipe"
             /\ cg' = Cleanup(cg, FALSE)
             /\ pc' = "jc_unlink"
    /\ UNCHANGED <<ll, enc, fn, two, hist, argc, limits, thrown, run_entered, child, out_buf, err_buf,
                   written, drain, exe_exists, core_out, core_exit>>

AllClosed == [out_r |-> "closed", out_w |-> "closed",
              err_r |-> "closed", err_w |-> "closed"]

\* pid_t pid = fork(); if (pid == -1) ...
RunProgram_fork ==
    /\ pc = "run_fork"
    /\ \/ /\ child' = [NoChild EXCEPT !.state = "setup"]
          /\ pc' = "run_add"
          /\ UNCHANGED <<result, run_result, fault, cg, fds>>
       \/ /\ run_result' = FaultResult(run_result, "Failed to fork process")
          /\ result' = run_result'
          /\ fault' = "fork"
          /\ fds' = AllClosed
          /\ cg' = Cleanup(cg, FALSE)
          /\ pc' = "jc_unlink"
          /\ UNCHANGED child
    /\ UNCHANGED <<ll, enc, fn, two, hist, argc, limits, thrown, run_entered, out_buf, err_buf, written,
                   drain, exe_exists, core_out, core_exit>>

\* kill(pid, SIGKILL); waitpid(pid, nullptr, 0);
KillAndReap(c) ==
    IF c.state \in {"setup", "running", "blocked"}
    THEN [c EXCEPT !.state = "reaped", !.kind = "signal", !.code = SIGKILL]
    ELSE [c EXCEPT !.state = "reaped"]

\* if (!cgroup.addProcess(pid)) ...
RunProgram_addProcess ==
    /\ pc = "run_add"
    /\ \/ /\ cg' = [cg EXCEPT !.procs = TRUE]
          /\ pc' = "run_bind"
          /\ UNCHANGED <<result, run_result, fault, fds, child>>
       \/ /\ run_result' =
                FaultResult(run_result, "Failed to add process to cgroup")
          /\ result' = run_result'
          /\ fault' = "enroll"
          /\ child' = KillAndReap(child)
          /\ fds' = AllClosed
          /\ cg' = Cleanup(cg, FALSE)
          /\ pc' = "jc_unlink"
    /\ UNCHANGED <<ll, enc, fn, two, hist, argc, limits, thrown, run_entered, out_buf, err_buf, written,
                   drain, exe_exists, core_out, core_exit>>

\* result.error_message += "Warning: Failed to set CPU affinity; "
AffinityWarning == "Warning: Failed to set CPU affinity; "

\* lines 730-740: stoi may throw (the exception unwinds runProgram, which
\* runs the CgroupManager destructor); a failed sched_setaffinity appends a
\* warning
RunProgram_forceCpuBinding ==
    /\ pc = "run_bind"
    /\ \/ /\ run_result.allocated_cpu = ""
          /\ pc' = "run_closew"
          /\ UNCHANGED <<run_result, thrown, cg, child, hist>>
       \/ /\ run_result.allocated_cpu # ""
          /\ \E affinity_ok \in BOOLEAN :
                /\ run_result' =
                      IF affinity_ok THEN run_result
                      ELSE [run_result EXCEPT !.error_message =
                               @ \o <<AffinityWarning>>]
                /\ child' = IF ChildAlive
                            THEN [child EXCEPT !.bound = affinity_ok] ELSE child
                /\ hist' = [hist EXCEPT !.bind_failed = ~affinity_ok]
          /\ pc' = "run_closew"
          /\ UNCHANGED <<thrown, cg>>
       \/ /\ run_result.allocated_cpu # ""
          /\ thrown' = TRUE
          /\ cg' = Cleanup(cg, ChildAlive)
          /\ pc' = "jc_catch"
          /\ UNCHANGED <<run_result, child, hist>>
    /\ UNCHANGED <<ll, enc, fn, two, argc, limits, result, fault, run_entered, fds, out_buf,
                   err_buf, written, drain, exe_exists, core_out, core_exit>>

\* close(stdout_pipe[1]); close(stderr_pipe[1]);
RunProgram_closeWriteEnds ==
    /\ pc = "run_closew"
    /\ fds' = [fds EXCEPT !.out_w = "closed", !.err_w = "closed"]
    /\ drain' = NoDrain
    /\ pc' = "run_drain"
    /\ UNCHANGED <<ll, enc, fn, two, hist, argc, limits, result, run_result, fault, thrown, run_entered,
                   cg, child, out_buf, err_buf, written, exe_exists, core_out,
                   core_exit>>

(***************************************************************************)
(* The drain loop (lines 745-806).                                         *)
(***************************************************************************)
\* a read end is readable when the pipe holds bytes or every write end is
\* closed (the supervisor closed its own; the child's close when it dies)
Readable(buf) == buf # <<>> \/ ~ChildAlive

\* read(fd, buffer, sizeof(buffer) - 1)
ReadChunk(buf) == SubSeq(buf, 1, Min(Len(buf), BufSize - 1))
ReadRest(buf) == SubSeq(buf, Min(Len(buf), BufSize - 1) + 1, Len(buf))

\* LoopContinues that stops the loop when one pipe is done
LoopContinues_Both(d) == ~d.stdout_done /\ ~d.stderr_done

\* while (!stdout_done || !stderr_done)
LoopContinues(d) == ~d.stdout_done \/ ~d.stderr_done

\* one iteration in which select reports a readable descriptor
RunProgram_select ==
    /\ pc = "run_drain"
    /\ LoopContinues(drain)
    /\ LET isset_out == ~drain.stdout_done /\ Readable(out_buf)
           isset_err == ~drain.stderr_done /\ Readable(err_buf)
           d1 == IF isset_out
                 THEN IF ReadChunk(out_buf) = <<>>
                      THEN [drain EXCEPT !.stdout_done = TRUE]
                      ELSE [drain EXCEPT !.stdout_output =
                                             @ \o CStr(ReadChunk(out_buf))]
                 ELSE drain
           d2 == IF isset_err
                 THEN IF ReadChunk(err_buf) = <<>>
                      THEN [d1 EXCEPT !.stderr_done = TRUE]
                      ELSE [d1 EXCEPT !.stderr_output =
                                          @ \o CStr(ReadChunk(err_buf))]
                 ELSE d1
       IN  /\ isset_out \/ isset_err
           /\ drain' = d2
           /\ out_buf' = IF isset_out THEN ReadRest(out_buf) ELSE out_buf
           /\ err_buf' = IF isset_err THEN ReadRest(err_buf) ELSE err_buf
           /\ hist' = IF isset_out
                      THEN [hist EXCEPT !.read_out = @ \o ReadChunk(out_buf)]
                      ELSE hist
           /\ pc' = IF LoopContinues(d2) THEN "run_drain" ELSE "run_closer"
    /\ UNCHANGED <<ll, enc, fn, two, argc, limits, result, run_result, fault, thrown, run_entered,
                   cg, fds, child, written, exe_exists, core_out, core_exit>>

\* stdout_output += buffer / stderr_output += buffer cannot get the memory
\* (std::bad_alloc, std::length_error): the exception unwinds runProgram,
\* which runs the CgroupManager destructor, and is caught in judge_core
RunProgram_appendThrows ==
    /\ pc = "run_drain"
    /\ LoopContinues(drain)
    /\ (~drain.stdout_done /\ out_buf # <<>>) \/ (~drain.stderr_done /\ err_buf # <<>>)
    /\ thrown' = TRUE
    /\ cg' = Cleanup(cg, ChildAlive)
    /\ pc' = "jc_catch"
    /\ UNCHANGED <<ll, enc, fn, two, hist, argc, limits, result, run_result, fault, run_entered,
                   fds, child, out_buf, err_buf, written, drain, exe_exists,
                   core_out, core_exit>>

\* if (select_result <= 0) break;  0: the deadline passed with nothing
\* readable; -1: select failed
RunProgram_selectBreak ==
    /\ pc = "run_drain"
    /\ LoopContinues(drain)
    /\ \E select_result \in {-1, 0} :
          select_result = 0 =>
              /\ ~(~drain.stdout_done /\ Readable(out_buf))
              /\ ~(~drain.stderr_done /\ Readable(err_buf))
    /\ pc' = "run_closer"
    /\ UNCHANGED <<ll, enc, fn, two, hist, argc, limits, result, run_result, fault, thrown, run_entered,
                   cg, fds, child, out_buf, err_buf, written, drain, exe_exists,
                   core_out, core_exit>>

\* RunProgram_closeReadEnds that goes on to wait4 with the read ends open
RunProgram_closeReadEnds_Skipped ==
    /\ pc = "run_closer"
    /\ pc' = "run_wait"
    /\ UNCHANGED <<ll, enc, fn, two, hist, argc, limits, result, run_result, fault,
                   thrown, run_entered, cg, fds, child, out_buf, err_buf,
                   written, drain, exe_exists, core_out, core_exit>>

\* close(stdout_pipe[0]); close(stderr_pipe[0]);
RunProgram_closeReadEnds ==
    /\ pc = "run_closer"
    /\ fds' = [fds EXCEPT !.out_r = "closed", !.err_r = "closed"]
    /\ pc' = "run_wait"
    /\ UNCHANGED <<ll, enc, fn, two, hist, argc, limits, result, run_result, fault, thrown, run_entered,
                   cg, child, out_buf, err_buf, written, drain, exe_exists,
                   core_out, core_exit>>

(***************************************************************************)
(* wait4 and the verdict (lines 808-918).                                  *)
(***************************************************************************)
\* wait4(pid, &status, 0, &usage) returns the pid: the child has terminated
RunProgram_wait4 ==
    /\ pc = "run_wait"
    /\ child.state = "zombie"
    /\ child' = [child EXCEPT !.state = "reaped"]
    /\ \E wall \in WallChoices, memory_peak \in PeakChoices,
          ru_maxrss \in RssChoices :
          run_result' = Classify(run_result, child.kind, child.code, wall,
                                 memory_peak, ru_maxrss, drain.stdout_output,
                                 drain.stderr_output, limits)
    /\ result' = run_result'
    /\ cg' = Cleanup(cg, FALSE)
    /\ pc' = "jc_unlink"
    /\ UNCHANGED <<ll, enc, fn, two, hist, argc, limits, fault, thrown, run_entered, fds, out_buf,
                   err_buf, written, drain, exe_exists, core_out, core_exit>>

\* wait4 returns -1
RunProgram_wait4Failed ==
    /\ pc = "run_wait"
    /\ run_result' =
          FaultResult(run_result, "Failed to wait for child process")
    /\ result' = run_result'
    /\ fault' = "wait"
    /\ cg' = Cleanup(cg, ChildAlive)
    /\ pc' = "jc_unlink"
    /\ UNCHANGED <<ll, enc, fn, two, hist, argc, limits, thrown, run_entered, fds, child, out_buf,
                   err_buf, written, drain, exe_exists, core_out, core_exit>>

(***************************************************************************)
(* The child (lines 665-712) and the user program it becomes.              *)
(***************************************************************************)
\* the calls between fork and exec whose return value the child does not
\* look at: dup2 for the three standard descriptors (lines 675, 679, 680)
\* and setrlimit for the four limits (lines 692, 697, 702, 707)
UncheckedCalls ==
    {"dup2_stdin", "dup2_stdout", "dup2_stderr",
     "RLIMIT_CPU", "RLIMIT_STACK", "RLIMIT_FSIZE", "RLIMIT_NPROC"}

\* the outcomes of the unchecked calls in this model: none fails, a
\* redirection fails, or the installation of a limit fails
FailureChoices == {{}, {"dup2_stdout"}, {"RLIMIT_CPU"}}

\* open of the input file or execl fails: exit(1)
Child_setupFails ==
    /\ child.state = "setup"
    /\ child' = [child EXCEPT !.state = "zombie", !.kind = "exit", !.code = 1]
    /\ UNCHANGED <<ll, enc, fn, two, hist, argc, pc, limits, result, run_result, fault, thrown,
                   run_entered, cg, fds, out_buf, err_buf, written, drain,
                   exe_exists, core_out, core_exit>>

\* execl succeeds
Child_exec ==
    /\ child.state = "setup"
    /\ \E failed \in FailureChoices :
          child' = [child EXCEPT !.state = "running", !.failed = failed]
    /\ UNCHANGED <<ll, enc, fn, two, hist, argc, pc, limits, result, run_result, fault, thrown,
                   run_entered, cg, fds, out_buf, err_buf, written, drain,
                   exe_exists, core_out, core_exit>>

\* the user program writes a byte to its standard output; the write blocks
\* while the pipe is full
Child_writeStdout ==
    /\ child.state = "running"
    /\ written.out < MaxOut
    /\ fds.out_r # "closed"
    /\ Len(out_buf) < PipeCap
    /\ \E b \in Bytes : out_buf' = Append(out_buf, b)
    /\ written' = [written EXCEPT !.out = @ + 1]
    /\ UNCHANGED <<ll, enc, fn, two, hist, argc, pc, limits, result, run_result, fault, thrown,
                   run_entered, cg, fds, child, err_buf, drain, exe_exists,
                   core_out, core_exit>>

\* the user program writes a byte to its standard error
Child_writeStderr ==
    /\ child.state = "running"
    /\ written.err < MaxErr
    /\ fds.err_r # "closed"
    /\ Len(err_buf) < PipeCap
    /\ \E b \in Bytes : err_buf' = Append(err_buf, b)
    /\ written' = [written EXCEPT !.err = @ + 1]
    /\ UNCHANGED <<ll, enc, fn, two, hist, argc, pc, limits, result, run_result, fault, thrown,
                   run_entered, cg, fds, child, out_buf, drain, exe_exists,
                   core_out, core_exit>>

\* a write to a pipe whose read end is closed raises SIGPIPE
Child_sigpipe ==
    /\ child.state = "running"
    /\ \/ written.out < MaxOut /\ fds.out_r = "closed"
       \/ written.err < MaxErr /\ fds.err_r = "closed"
    /\ child' = [child EXCEPT !.state = "zombie", !.kind = "signal",
                              !.code = SIGPIPE]
    /\ UNCHANGED <<ll, enc, fn, two, hist, argc, pc, limits, result, run_result, fault, thrown,
                   run_entered, cg, fds, out_buf, err_buf, written, drain,
                   exe_exists, core_out, core_exit>>

\* the user program exits
Child_exit ==
    /\ child.state = "running"
    /\ \E code \in ExitCodes :
          child' = [child EXCEPT !.state = "zombie", !.kind = "exit",
                                 !.code = code]
    /\ UNCHANGED <<ll, enc, fn, two, hist, argc, pc, limits, result, run_result, fault, thrown,
                   run_entered, cg, fds, out_buf, err_buf, written, drain,
                   exe_exists, core_out, core_exit>>

\* the user program is terminated by a signal (rlimit, cgroup, fault)
Child_signal ==
    /\ child.state = "running"
    /\ \E s \in Signals :
          child' = [child EXCEPT !.state = "zombie", !.kind = "signal",
                                 !.code = s]
    /\ UNCHANGED <<ll, enc, fn, two, hist, argc, pc, limits, result, run_result, fault, thrown,
                   run_entered, cg, fds, out_buf, err_buf, written, drain,
                   exe_exists, core_out, core_exit>>

\* the user program blocks for ever without consuming CPU time (pause())
Child_block ==
    /\ child.state = "running"
    /\ child' = [child EXCEPT !.state = "blocked"]
    /\ UNCHANGED <<ll, enc, fn, two, hist, argc, pc, limits, result, run_result, fault, thrown,
                   run_entered, cg, fds, out_buf, err_buf, written, drain,
                   exe_exists, core_out, core_exit>>

(***************************************************************************)
(* Specifications.                                                         *)
(***************************************************************************)
Next ==
    \/ Main_usage
    \/ Main_call
    \/ Main_print
    \/ JudgeCore_loadLimits
    \/ JudgeCore_compileProgram
    \/ JudgeCore_unlink
    \/ JudgeCore_catch
    \/ RunProgram_create
    \/ RunProgram_setMemoryLimit
    \/ RunProgram_setCpuLimit
    \/ RunProgram_pipe
    \/ RunProgram_fork
    \/ RunProgram_addProcess
    \/ RunProgram_forceCpuBinding
    \/ RunProgram_closeWriteEnds
    \/ RunProgram_select
    \/ RunProgram_appendThrows
    \/ RunProgram_selectBreak
    \/ RunProgram_closeReadEnds
    \/ RunProgram_wait4
    \/ RunProgram_wait4Failed
    \/ Child_setupFails
    \/ Child_exec
    \/ Child_writeStdout
    \/ Child_writeStderr
    \/ Child_sigpipe
    \/ Child_exit
    \/ Child_signal
    \/ Child_block

Spec == Init /\ [][Next]_vars

\* steps of the supervisor that are taken once they are possible: every step
\* but the failure of wait4, which the environment may never produce
SupervisorStep ==
    \/ Main_usage
    \/ Main_call
    \/ Main_print
    \/ JudgeCore_loadLimits
    \/ JudgeCore_compileProgram
    \/ JudgeCore_unlink
    \/ JudgeCore_catch
    \/ RunProgram_create
    \/ RunProgram_setMemoryLimit
    \/ RunProgram_setCpuLimit
    \/ RunProgram_pipe
    \/ RunProgram_fork
    \/ RunProgram_addProcess
    \/ RunProgram_forceCpuBinding
    \/ RunProgram_closeWriteEnds
    \/ RunProgram_select
    \/ RunProgram_selectBreak
    \/ RunProgram_closeReadEnds
    \/ RunProgram_wait4

\* a child that is setting up reaches exec or exits; a running child that
\* keeps consuming CPU time is ended by RLIMIT_CPU at the latest
ChildProgress ==
    \/ Child_setupFails
    \/ Child_exec
    \/ Child_exit
    \/ Child_signal

FairSpec ==
    Init /\ [][Next]_vars /\ WF_vars(SupervisorStep) /\ WF_vars(ChildProgress)

(***************************************************************************)
(* SpecLimits: parseJsonNumber (lines 469-495) and loadLimits (lines       *)
(* 515-552) on the text of the configuration file.                         *)
(*                                                                         *)
(* The text is a sequence of tokens: a quoted key ("time_limit" stands for *)
(* the eleven characters of the quoted key), or one character.  Numbers    *)
(* are little-endian sequences of 16-bit limbs: a long long has four       *)
(* limbs, an int two, both in two's complement; a sequence without         *)
(* trailing zero limbs is a natural number of any size.                    *)
(***************************************************************************)
NumValues == 6         \* how many of the values of ValueList a field can take

LimbBase == 2 ^ 16
SignLimb == 2 ^ 15

DigitChars == <<"0", "1", "2", "3", "4", "5", "6", "7", "8", "9">>
DigitSet == {DigitChars[i] : i \in 1..10}
DigitVal(c) == (CHOOSE i \in 1..10 : DigitChars[i] = c) - 1
Chars(ds) == [i \in 1..Len(ds) |-> DigitChars[ds[i] + 1]]

\* x * m + a on natural numbers of any size (m <= 1024, a < 2^27)
RECURSIVE BigMulAdd(_, _, _)
BigMulAdd(x, m, a) ==
    IF x = <<>>
    THEN IF a = 0 THEN <<>>
         ELSE <<a % LimbBase>> \o BigMulAdd(<<>>, m, a \div LimbBase)
    ELSE <<(Head(x) * m + a) % LimbBase>>
             \o BigMulAdd(Tail(x), m, (Head(x) * m + a) \div LimbBase)

\* the natural number a digit sequence denotes
RECURSIVE BigOfDigits(_, _)
BigOfDigits(ds, acc) ==
    IF ds = <<>> THEN acc
    ELSE BigOfDigits(Tail(ds), BigMulAdd(acc, 10, Head(ds)))

\* drop the trailing zero limbs
RECURSIVE Trim(_)
Trim(x) ==
    IF x = <<>> THEN <<>>
    ELSE IF x[Len(x)] = 0 THEN Trim(SubSeq(x, 1, Len(x) - 1))
    ELSE x

\* the low w limbs of a natural number: its value modulo 2^(16 w)
Low(x, w) == SubSeq(x \o <<0, 0, 0, 0>>, 1, w)

\* long long values
LLOfNat(n) == <<n % LimbBase, n \div LimbBase, 0, 0>>
LLMinusOne == <<LimbBase - 1, LimbBase - 1, LimbBase - 1, LimbBase - 1>>
LLPositive(x) == x[4] < SignLimb /\ Trim(x) # <<>>
\* a natural number is representable as a long long
FitsLL(n) == Len(n) < 4 \/ (Len(n) = 4 /\ n[4] < SignLimb)

\* x * m + a in long long arithmetic: the wrapped value, and whether the
\* signed operation overflowed (x is not negative when the code gets here
\* without an earlier overflow)
LLMulAdd(x, m, a) ==
    [val |-> Low(BigMulAdd(Trim(x), m, a), 4),
     ub |-> x[4] < SignLimb /\ ~FitsLL(BigMulAdd(Trim(x), m, a))]

\* int values; the conversion long long -> int keeps the low 32 bits
IntOfNat(n) == <<n % LimbBase, n \div LimbBase>>
IntOfLL(x) == <<x[1], x[2]>>
IntPositive(x) == x[2] < SignLimb /\ Trim(x) # <<>>

\* json.find(tok, from): the least position >= from that holds tok, 0 for npos
Find(json, tok, from) ==
    IF \E i \in from..Len(json) : json[i] = tok
    THEN CHOOSE i \in from..Len(json) :
            json[i] = tok /\ \A j \in from..(i - 1) : json[j] # tok
    ELSE 0

\* the position at which a loop  while (pos < json.length() && json[pos] in
\* set) pos++  that starts at from stops
LoopEnd(json, from, set) ==
    CHOOSE p \in from..(Len(json) + 1) :
        /\ p = Len(json) + 1 \/ json[p] \notin set
        /\ \A q \in from..(p - 1) : json[q] \in set

\* while (pos < json.length() && (json[pos] == ' ' || json[pos] == '\t')) pos++
SkipBlanks(json, pos) == LoopEnd(json, pos, {" ", "\t"})

\* while (pos < json.length() && json[pos] >= '0' && json[pos] <= '9')
\*     result = result * 10 + (json[pos] - '0')
\* over the digits ds the loop runs through
\* acc.ub records that an earlier iteration overflowed; the loop then goes on
\* with the wrapped value
RECURSIVE Accumulate(_, _)
Accumulate(ds, acc) ==
    IF ds = <<>> THEN acc
    ELSE IF acc.ub
    THEN Accumulate(Tail(ds),
                    [val |-> LLMulAdd(acc.val, 10, DigitVal(Head(ds))).val,
                     ub |-> TRUE])
    ELSE Accumulate(Tail(ds), LLMulAdd(acc.val, 10, DigitVal(Head(ds))))

ParseDigits(json, pos, acc) ==
    Accumulate(SubSeq(json, pos, LoopEnd(json, pos, DigitSet) - 1), acc)

\* the value parseJsonNumber returns, and whether computing it overflowed
parseJsonNumber(json, key) ==
    LET kpos == Find(json, key, 1) IN
    IF kpos = 0 THEN [val |-> LLMinusOne, ub |-> FALSE]
    ELSE LET cpos == Find(json, ":", kpos) IN
         IF cpos = 0 THEN [val |-> LLMinusOne, ub |-> FALSE]
         ELSE ParseDigits(json, SkipBlanks(json, cpos + 1),
                          [val |-> LLOfNat(0), ub |-> FALSE])

\* the Limits record loadLimits returns, and whether signed overflow
\* (undefined behaviour) happened on the way
loadLimits(file_open, json) ==
    IF ~file_open
    THEN [ub |-> FALSE,
          time_limit |-> IntOfNat(1000),
          memory_limit |-> LLOfNat(67108864),
          output_limit |-> IntOfNat(64000000),
          compile_timeout |-> IntOfNat(30000),
          stack_limit |-> LLOfNat(8388608)]
    ELSE LET time_limit == parseJsonNumber(json, "time_limit")
             memory_limit == parseJsonNumber(json, "memory_limit")
             output_limit == parseJsonNumber(json, "output_limit")
             compile_timeout == parseJsonNumber(json, "compile_timeout")
             stack_limit == parseJsonNumber(json, "stack_limit")
             memory_bytes == LLMulAdd(memory_limit.val, 1024, 0)
             stack_bytes == LLMulAdd(stack_limit.val, 1024, 0)
         IN  [ub |-> \/ time_limit.ub \/ memory_limit.ub \/ output_limit.ub
                     \/ compile_timeout.ub \/ stack_limit.ub
                     \/ (LLPositive(memory_limit.val) /\ memory_bytes.ub)
                     \/ (LLPositive(stack_limit.val) /\ stack_bytes.ub),
              time_limit |-> IF LLPositive(time_limit.val)
                             THEN IntOfLL(time_limit.val) ELSE IntOfNat(1000),
              memory_limit |-> IF LLPositive(memory_limit.val)
                               THEN memory_bytes.val ELSE LLOfNat(67108864),
              output_limit |-> IF LLPositive(output_limit.val)
                               THEN IntOfLL(output_limit.val)
                               ELSE IntOfNat(64000000),
              compile_timeout |-> IF LLPositive(compile_timeout.val)
                                  THEN IntOfLL(compile_timeout.val)
                                  ELSE IntOfNat(30000),
              stack_limit |-> IF LLPositive(stack_limit.val)
                              THEN stack_bytes.val ELSE LLOfNat(8388608)]

\* values a field of the file can hold: 5, 0, 2^31 - 1, 2^32, 2^53, 2^64,
\* 2^31, 2^32 + 5
ValueList ==
    << <<5>>, <<0>>,
       <<2,1,4,7,4,8,3,6,4,7>>,
       <<4,2,9,4,9,6,7,2,9,6>>,
       <<9,0,0,7,1,9,9,2,5,4,7,4,0,9,9,2>>,
       <<1,8,4,4,6,7,4,4,0,7,3,7,0,9,5,5,1,6,1,6>>,
       <<2,1,4,7,4,8,3,6,4,8>>,
       <<4,2,9,4,9,6,7,3,0,1>> >>

Values == {ValueList[i] : i \in 1..Min(NumValues, Len(ValueList))}

\* how a field appears in the file
ValueForms == [kind : {"value"}, digits : Values]
OtherForms == [kind : {"missing", "negative", "garbage"}, digits : {<<>>}]
AllForms == ValueForms \cup OtherForms
FewForms == [kind : {"missing"}, digits : {<<>>}]
                \cup [kind : {"value"}, digits : {ValueList[1]}]
LastForms == FewForms \cup [kind : {"nocolon"}, digits : {<<>>}]

Entry(key, form) ==
    CASE form.kind = "missing" -> <<>>
      [] form.kind = "nocolon" -> <<key, ",">>
      [] form.kind = "negative" -> <<key, ":", " ", "-", "5", ",">>
      [] form.kind = "garbage" -> <<key, ":", "x", ",">>
      [] form.kind = "value" ->
            <<key, ":", " ">> \o Chars(form.digits) \o <<",">>

FileText(forms) ==
    <<"{">> \o Entry("time_limit", forms.time_limit)
            \o Entry("memory_limit", forms.memory_limit)
            \o Entry("output_limit", forms.output_limit)
            \o Entry("compile_timeout", forms.compile_timeout)
            \o Entry("stack_limit", forms.stack_limit) \o <<"}">>

FormChoices ==
    [time_limit : AllForms, memory_limit : AllForms, output_limit : FewForms,
     compile_timeout : FewForms, stack_limit : LastForms]

\* the file of an invocation, whether it can be opened, and what the build
\* does on signed overflow: wrap around, or trap
InitLimits ==
    /\ argc = 4
    /\ MainInit
    /\ enc = NoEnc
    /\ fn = NoFn
    /\ two = NoTwo
    /\ \E forms \in FormChoices, file_open \in BOOLEAN,
          on_overflow \in {"wrap", "trap"} :
          ll = [pc |-> "call", forms |-> forms, file_open |-> file_open,
                json |-> FileText(forms), on_overflow |-> on_overflow]

\* Limits limits = loadLimits(limits_file) returns
LoadLimits_return ==
    /\ ll.pc = "call"
    /\ LET l == loadLimits(ll.file_open, ll.json)
       IN  /\ ~(l.ub /\ ll.on_overflow = "trap")
           /\ ll' = [pc |-> "returned", forms |-> ll.forms,
                     file_open |-> ll.file_open, json |-> ll.json,
                     on_overflow |-> ll.on_overflow, limits |-> l]
    /\ UNCHANGED <<enc, fn, two, hist, argc, pc, limits, result, run_result, fault, thrown,
                   run_entered, cg, fds, child, out_buf, err_buf, written,
                   drain, exe_exists, core_out, core_exit>>

\* a signed overflow in a build that traps ends the process
LoadLimits_trap ==
    /\ ll.pc = "call"
    /\ loadLimits(ll.file_open, ll.json).ub
    /\ ll.on_overflow = "trap"
    /\ ll' = [ll EXCEPT !.pc = "aborted"]
    /\ UNCHANGED <<enc, fn, two, hist, argc, pc, limits, result, run_result, fault, thrown,
                   run_entered, cg, fds, child, out_buf, err_buf, written,
                   drain, exe_exists, core_out, core_exit>>

NextLimits ==
    \/ LoadLimits_return
    \/ LoadLimits_trap

SpecLimits == InitLimits /\ [][NextLimits]_vars

(***************************************************************************)
(* SpecJson: resultToJson (lines 920-973) on the characters of the text.   *)
(* A string is a sequence of one-character strings; endl is "\n".          *)
(***************************************************************************)
MaxStr == 2            \* error_message and stdout_content have MaxStr characters together at most

\* the characters of the payload strings: the five escaped ones and a letter
Alphabet == {"\"", "\\", "\n", "\r", "\t", "n"}

\* the fixed text resultToJson writes between the fields
JsonOpen ==
    <<"{", "\n", " ", " ", "\"", "s", "t", "a", "t", "u", "s", "\"", ":",
      " ", "\"">>

JsonTime ==
    <<"\"", ",", "\n", " ", " ", "\"", "t", "i", "m", "e", "_", "u", "s",
      "e", "d", "\"", ":", " ">>

JsonMem ==
    <<",", "\n", " ", " ", "\"", "m", "e", "m", "_", "u", "s", "e", "d",
      "\"", ":", " ">>

JsonExit ==
    <<",", "\n", " ", " ", "\"", "e", "x", "i", "t", "_", "c", "o", "d", "e",
      "\"", ":", " ">>

JsonError ==
    <<",", "\n", " ", " ", "\"", "e", "r", "r", "o", "r", "_", "m", "e", "s",
      "s", "a", "g", "e", "\"", ":", " ", "\"">>

JsonStdout ==
    <<"\"", ",", "\n", " ", " ", "\"", "s", "t", "d", "o", "u", "t", "\"",
      ":", " ", "\"">>

JsonLen ==
    <<"\"", ",", "\n", " ", " ", "\"", "o", "u", "t", "p", "u", "t", "_",
      "l", "e", "n", "\"", ":", " ">>

JsonCpu ==
    <<",", "\n", " ", " ", "\"", "a", "l", "l", "o", "c", "a", "t", "e", "d",
      "_", "c", "p", "u", "\"", ":", " ", "\"">>

JsonClose ==
    <<"\"", "\n", "}">>

\* operator<< of a non-negative integer: its decimal digits
RECURSIVE DecimalOfNat(_)
DecimalOfNat(n) ==
    IF n < 10 THEN <<DigitChars[n + 1]>>
    ELSE Append(DecimalOfNat(n \div 10), DigitChars[(n % 10) + 1])

\* operator<< of a long long or an int
Decimal(n) == IF n < 0 THEN <<"-">> \o DecimalOfNat(-n) ELSE DecimalOfNat(n)

\* Escape that writes a backslash as it is
Escape_PlainBackslash(c) ==
    CASE c = "\"" -> <<"\\", "\"">>
      [] c = "\n" -> <<"\\", "n">>
      [] c = "\r" -> <<"\\", "r">>
      [] c = "\t" -> <<"\\", "t">>
      [] OTHER -> <<c>>

\* the if-chain of the two loops (lines 933-944, 953-964)
Escape(c) ==
    CASE c = "\"" -> <<"\\", "\"">>
      [] c = "\\" -> <<"\\", "\\">>
      [] c = "\n" -> <<"\\", "n">>
      [] c = "\r" -> <<"\\", "r">>
      [] c = "\t" -> <<"\\", "t">>
      [] OTHER -> <<c>>

\* for (char c : str) ...
RECURSIVE EscapeAll(_)
EscapeAll(str) ==
    IF str = <<>> THEN <<>> ELSE Escape(Head(str)) \o EscapeAll(Tail(str))

\* the characters of the strings the model writes as one value
CharsOf(str) ==
    CASE str = "" -> <<>>
      [] str = "0" -> <<"0">>
      [] str = "OK" -> <<"O", "K">>
      [] str = "RE" -> <<"R", "E">>
      [] str = "CE" -> <<"C", "E">>
      [] str = "SE" -> <<"S", "E">>
      [] str = "TLE" -> <<"T", "L", "E">>
      [] str = "MLE" -> <<"M", "L", "E">>
      [] str = "OLE" -> <<"O", "L", "E">>

resultToJson(r) ==
    JsonOpen \o CharsOf(r.status)
    \o JsonTime \o Decimal(r.time_used)
    \o JsonMem \o Decimal(r.mem_used)
    \o JsonExit \o Decimal(r.exit_code)
    \o JsonError \o EscapeAll(r.error_message)
    \o JsonStdout \o EscapeAll(r.stdout_content)
    \o JsonLen \o Decimal(r.output_len)
    \o JsonCpu \o CharsOf(r.allocated_cpu)
    \o JsonClose

\* the strings of at most n characters
RECURSIVE StringsUpTo(_)
StringsUpTo(n) ==
    IF n = 0 THEN {<<>>}
    ELSE StringsUpTo(n - 1)
         \cup {Append(str, c) : str \in StringsUpTo(n - 1), c \in Alphabet}

\* status, numbers and cpu of results the core prints
JsonShapes ==
    {[status |-> "OK", time_used |-> 12, mem_used |-> 2048, exit_code |-> 0,
      allocated_cpu |-> "0"],
     [status |-> "RE", time_used |-> 0, mem_used |-> 0, exit_code |-> -1,
      allocated_cpu |-> ""],
     [status |-> "TLE", time_used |-> 1001, mem_used |-> 67108864,
      exit_code |-> 137, allocated_cpu |-> "0"],
     [status |-> "CE", time_used |-> 30001, mem_used |-> 0, exit_code |-> 0,
      allocated_cpu |-> ""]}

\* error_message and stdout_content of MaxStr characters together at most
JsonPayloads ==
    UNION {{[error_message |-> e, stdout_content |-> o] :
                o \in StringsUpTo(MaxStr - Len(e))} :
           e \in StringsUpTo(MaxStr)}

\* the results SpecJson encodes
JsonResults ==
    {[status |-> sh.status, time_used |-> sh.time_used,
      mem_used |-> sh.mem_used, exit_code |-> sh.exit_code,
      error_message |-> p.error_message,
      stdout_content |-> p.stdout_content,
      output_len |-> Len(p.stdout_content),
      allocated_cpu |-> sh.allocated_cpu] :
        sh \in JsonShapes, p \in JsonPayloads}

InitJson ==
    /\ argc = 4
    /\ MainInit
    /\ ll = NoLoad
    /\ fn = NoFn
    /\ two = NoTwo
    /\ \E r \in JsonResults : enc = [pc |-> "call", r |-> r, text |-> <<>>]

\* string resultToJson(const JudgeResult &result)
ResultToJson_return ==
    /\ enc.pc = "call"
    /\ enc' = [enc EXCEPT !.pc = "returned", !.text = resultToJson(enc.r)]
    /\ UNCHANGED <<ll, fn, two, hist, argc, pc, limits, result, run_result, fault, thrown,
                   run_entered, cg, fds, child, out_buf, err_buf, written,
                   drain, exe_exists, core_out, core_exit>>

NextJson == ResultToJson_return

SpecJson == InitJson /\ [][NextJson]_vars

(***************************************************************************)
(* SpecTime: the CPU limit of the child (lines 689-692) and the deadline   *)
(* of select (line 748) as functions of limits.time_limit, in int and      *)
(* rlim_t arithmetic.  An int is an integer in -2^31 .. 2^31 - 1; an       *)
(* rlim_t (unsigned 64-bit) is a sequence of four 16-bit limbs.            *)
(***************************************************************************)
NearTimes == 5         \* how many values next to each boundary are tried

\* the largest int
IntMax == 2147483647

\* a + b for ints a >= 0, b >= 0: the wrapped value, and whether the signed
\* addition overflowed
IntAdd(a, b) ==
    IF a > IntMax - b
    THEN [val |-> ((a - IntMax) - 1) + ((b - IntMax) - 1), ub |-> TRUE]
    ELSE [val |-> a + b, ub |-> FALSE]

\* x / d for ints, d > 0: the quotient is truncated towards zero
IntDiv(x, d) ==
    IF x >= 0 THEN x \div d
    ELSE 0 - (((0 - (x + 1)) \div d)
              + (IF (0 - (x + 1)) % d = d - 1 THEN 1 ELSE 0))

\* the conversion int -> rlim_t: modulo 2^64
RlimOfInt(e) ==
    IF e >= 0 THEN LLOfNat(e)
    ELSE <<LimbBase - 1 - LLOfNat(0 - (e + 1))[1],
           LimbBase - 1 - LLOfNat(0 - (e + 1))[2],
           LimbBase - 1, LimbBase - 1>>

\* rl.rlim_cur + 1 in rlim_t arithmetic
RlimSucc(x) == Low(BigMulAdd(Trim(x), 1, 1), 4)

\* (limits.time_limit + 999) / 1000
Seconds(time_limit) ==
    [val |-> IntDiv(IntAdd(time_limit, 999).val, 1000),
     ub |-> IntAdd(time_limit, 999).ub]

\* rl.rlim_cur, rl.rlim_max of RLIMIT_CPU and timeout.tv_sec
TimeLimits(time_limit) ==
    [rlim_cur |-> RlimOfInt(Seconds(time_limit).val),
     rlim_max |-> RlimSucc(RlimOfInt(Seconds(time_limit).val)),
     tv_sec |-> Seconds(time_limit).val + 1,
     ub |-> Seconds(time_limit).ub]

\* positive values of the int field time_limit: small ones, the multiples
\* of 1000 and their neighbours, and the largest ones
TimeChoices ==
    (1..NearTimes)
    \cup {1000 * k + d : k \in 1..NearTimes, d \in {-1, 0, 1}}
    \cup {(IntMax - 999) + d : d \in (0 - NearTimes)..NearTimes}
    \cup {IntMax - d : d \in 0..NearTimes}

InitTime ==
    /\ argc = 4
    /\ MainInit
    /\ ll = NoLoad
    /\ enc = NoEnc
    /\ two = NoTwo
    /\ \E t \in TimeChoices, on_overflow \in {"wrap", "trap"} :
          fn = [pc |-> "call", time_limit |-> t, on_overflow |-> on_overflow]

\* the expressions are evaluated; a signed overflow is undefined behaviour:
\* the build either wraps or traps
TimeLimits_return ==
    /\ fn.pc = "call"
    /\ ~(TimeLimits(fn.time_limit).ub /\ fn.on_overflow = "trap")
    /\ fn' = [pc |-> "returned", time_limit |-> fn.time_limit,
              on_overflow |-> fn.on_overflow,
              set |-> TimeLimits(fn.time_limit)]
    /\ UNCHANGED <<ll, enc, two, hist, argc, pc, limits, result, run_result,
                   fault, thrown, run_entered, cg, fds, child, out_buf,
                   err_buf, written, drain, exe_exists, core_out, core_exit>>

TimeLimits_trap ==
    /\ fn.pc = "call"
    /\ TimeLimits(fn.time_limit).ub
    /\ fn.on_overflow = "trap"
    /\ fn' = [fn EXCEPT !.pc = "aborted"]
    /\ UNCHANGED <<ll, enc, two, hist, argc, pc, limits, result, run_result,
                   fault, thrown, run_entered, cg, fds, child, out_buf,
                   err_buf, written, drain, exe_exists, core_out, core_exit>>

NextTime ==
    \/ TimeLimits_return
    \/ TimeLimits_trap

SpecTime == InitTime /\ [][NextTime]_vars

(***************************************************************************)
(* SpecCpu: getCpuCount (lines 303-323) and selectCpuForBinding (lines     *)
(* 276-294).  The hash of the cgroup name (size_t) and the tick count of   *)
(* the clock (long long, converted to size_t by the ^) are 64-bit values:  *)
(* sequences of four 16-bit limbs.                                         *)
(***************************************************************************)
MaxCpus == 4           \* /proc/cpuinfo has 0..MaxCpus processor lines

\* a ^ b on 16-bit values
RECURSIVE Xor16(_, _)
Xor16(a, b) ==
    IF a = 0 /\ b = 0 THEN 0
    ELSE (((a % 2) + (b % 2)) % 2) + 2 * Xor16(a \div 2, b \div 2)

\* x ^ y on size_t
Xor64(x, y) ==
    <<Xor16(x[1], y[1]), Xor16(x[2], y[2]), Xor16(x[3], y[3]), Xor16(x[4], y[4])>>

\* x % n for a size_t x and 0 < n < 2^15
Mod64(x, n) ==
    LET r4 == x[4] % n
        r3 == ((r4 * LimbBase) + x[3]) % n
        r2 == ((r3 * LimbBase) + x[2]) % n
    IN  ((r2 * LimbBase) + x[1]) % n

\* readable: /proc/cpuinfo can be opened; lines: its lines that begin with
\* "processor"
getCpuCount(readable, lines) ==
    IF ~readable THEN -1
    ELSE IF lines > 0 THEN lines ELSE 1

\* selectCpuForBinding that takes the remainder by cpu_count + 1
selectCpuForBinding_OffByOne(cpu_count, name_hash, timestamp) ==
    IF cpu_count <= 0 THEN <<"0">>
    ELSE Decimal(Mod64(Xor64(name_hash, timestamp), cpu_count + 1))

\* to_string(hash_value % cpu_count), "0" when cpu_count <= 0
selectCpuForBinding(cpu_count, name_hash, timestamp) ==
    IF cpu_count <= 0 THEN <<"0">>
    ELSE Decimal(Mod64(Xor64(name_hash, timestamp), cpu_count))

\* values of std::hash<string>{}(cgroup_name)
HashChoices ==
    {<<0, 0, 0, 0>>, <<1, 0, 0, 0>>, <<51966, 47806, 57005, 48879>>,
     <<LimbBase - 1, LimbBase - 1, LimbBase - 1, LimbBase - 1>>}

\* values of now.time_since_epoch().count(): 0, a present-day count of
\* nanoseconds, the largest count, -1 and the least count
TickChoices ==
    {<<0, 0, 0, 0>>, <<21845, 4660, 43981, 6000>>,
     <<LimbBase - 1, LimbBase - 1, LimbBase - 1, SignLimb - 1>>,
     LLMinusOne, <<0, 0, 0, SignLimb>>}

InitCpu ==
    /\ argc = 4
    /\ MainInit
    /\ ll = NoLoad
    /\ enc = NoEnc
    /\ two = NoTwo
    /\ \E readable \in BOOLEAN, lines \in 0..MaxCpus,
          name_hash \in HashChoices, timestamp \in TickChoices :
          fn = [pc |-> "call", readable |-> readable, lines |-> lines,
                name_hash |-> name_hash, timestamp |-> timestamp,
                selected_cpu |-> <<>>]

\* string selected_cpu = selectCpuForBinding();
SelectCpuForBinding_return ==
    /\ fn.pc = "call"
    /\ fn' = [fn EXCEPT
                 !.pc = "returned",
                 !.selected_cpu =
                     selectCpuForBinding(getCpuCount(fn.readable, fn.lines),
                                         fn.name_hash, fn.timestamp)]
    /\ UNCHANGED <<ll, enc, two, hist, argc, pc, limits, result, run_result,
                   fault, thrown, run_entered, cg, fds, child, out_buf,
                   err_buf, written, drain, exe_exists, core_out, core_exit>>

NextCpu == SelectCpuForBinding_return

SpecCpu == InitCpu /\ [][NextCpu]_vars

(***************************************************************************)
(* SpecTwo: judge instances (processes) whose CgroupManager constructors   *)
(* (lines 108-116) drew the same cgroup_name, each running the cgroup      *)
(* calls of runProgram (lines 617-728, 811-815) and the destructor (lines  *)
(* 124-127) on the one node /sys/fs/cgroup/judge_XXXXXX.                   *)
(*   dir: the directory exists; owner: the instance whose mkdir made it;   *)
(*   members: instances whose child is in cgroup.procs; writes: every      *)
(*   successful write to a file of the node, with the owner at that time;  *)
(*   forked: instances that called fork; rmdirs: instances that called     *)
(*   rmdir on the node.                                                    *)
(***************************************************************************)
NumInstances == 2

Instances == 1..NumInstances

NewInstance == [pc |-> "create", created |-> FALSE, eexist |-> FALSE]

\* create() that sets the flag whether or not mkdir succeeded
create_AlwaysCreated(c, mkdir_ok) == [c EXCEPT !.created = TRUE]

\* lines 138-147: if (mkdir(...) != 0) return false; created = true;
create(c, mkdir_ok) == IF mkdir_ok THEN [c EXCEPT !.created = TRUE] ELSE c

\* instance i goes on to pc p
Goto(i, p) == [two.inst EXCEPT ![i].pc = p]

\* a successful write by instance i to file f of the node
Wrote(i, f) == two.writes \cup {[by |-> i, file |-> f, owner |-> two.owner]}

InitTwo ==
    /\ argc = 4
    /\ MainInit
    /\ ll = NoLoad
    /\ enc = NoEnc
    /\ fn = NoFn
    /\ two = [pc |-> "run", dir |-> FALSE, owner |-> 0, members |-> {},
              inst |-> [i \in Instances |-> NewInstance],
              writes |-> {}, forked |-> {}, rmdirs |-> {}]

\* if (!cgroup.create()) { ...; return result; }  mkdir fails with EEXIST
\* when the directory exists, and may fail for another reason when not
Two_create(i) ==
    /\ two.inst[i].pc = "create"
    /\ \/ /\ two.dir
          /\ two' = [two EXCEPT
                        !.inst[i] = [create(@, FALSE) EXCEPT
                                        !.eexist = TRUE, !.pc = "cleanup"]]
       \/ /\ ~two.dir
          /\ two' = [two EXCEPT
                        !.dir = TRUE, !.owner = i,
                        !.inst[i] = [create(@, TRUE) EXCEPT !.pc = "setmem"]]
       \/ /\ ~two.dir
          /\ two' = [two EXCEPT
                        !.inst[i] = [create(@, FALSE) EXCEPT !.pc = "cleanup"]]
    /\ UNCHANGED <<ll, enc, fn, hist, argc, pc, limits, result, run_result,
                   fault, thrown, run_entered, cg, fds, child, out_buf,
                   err_buf, written, drain, exe_exists, core_out, core_exit>>

\* if (!cgroup.setMemoryLimit(limits.memory_limit)) { ...; return result; }
Two_setMemoryLimit(i) ==
    /\ two.inst[i].pc = "setmem"
    /\ \/ /\ two.inst[i].created
          /\ two.dir
          /\ two' = [two EXCEPT !.writes = Wrote(i, "memory.max"),
                                !.inst = Goto(i, "setcpu")]
       \/ two' = [two EXCEPT !.inst = Goto(i, "cleanup")]
    /\ UNCHANGED <<ll, enc, fn, hist, argc, pc, limits, result, run_result,
                   fault, thrown, run_entered, cg, fds, child, out_buf,
                   err_buf, written, drain, exe_exists, core_out, core_exit>>

\* if (!cgroup.setCpuLimit()) { ...; return result; }
Two_setCpuLimit(i) ==
    /\ two.inst[i].pc = "setcpu"
    /\ \/ /\ two.inst[i].created
          /\ two.dir
          /\ two' = [two EXCEPT
                        !.writes = Wrote(i, "cpuset.cpus")
                                       \cup Wrote(i, "cpuset.mems"),
                        !.inst = Goto(i, "fork")]
       \/ /\ two.inst[i].created
          /\ two.dir
          /\ two' = [two EXCEPT !.writes = Wrote(i, "cpuset.cpus"),
                                !.inst = Goto(i, "cleanup")]
       \/ two' = [two EXCEPT !.inst = Goto(i, "cleanup")]
    /\ UNCHANGED <<ll, enc, fn, hist, argc, pc, limits, result, run_result,
                   fault, thrown, run_entered, cg, fds, child, out_buf,
                   err_buf, written, drain, exe_exists, core_out, core_exit>>

\* pid_t pid = fork(); if (pid == -1) { ...; return result; }
Two_fork(i) ==
    /\ two.inst[i].pc = "fork"
    /\ \/ two' = [two EXCEPT !.forked = @ \cup {i}, !.inst = Goto(i, "add")]
       \/ two' = [two EXCEPT !.forked = @ \cup {i},
                             !.inst = Goto(i, "cleanup")]
    /\ UNCHANGED <<ll, enc, fn, hist, argc, pc, limits, result, run_result,
                   fault, thrown, run_entered, cg, fds, child, out_buf,
                   err_buf, written, drain, exe_exists, core_out, core_exit>>

\* if (!cgroup.addProcess(pid)) { kill; waitpid; ...; return result; }
Two_addProcess(i) ==
    /\ two.inst[i].pc = "add"
    /\ \/ /\ two.inst[i].created
          /\ two.dir
          /\ two' = [two EXCEPT !.writes = Wrote(i, "cgroup.procs"),
                                !.members = @ \cup {i},
                                !.inst = Goto(i, "wait")]
       \/ two' = [two EXCEPT !.inst = Goto(i, "cleanup")]
    /\ UNCHANGED <<ll, enc, fn, hist, argc, pc, limits, result, run_result,
                   fault, thrown, run_entered, cg, fds, child, out_buf,
                   err_buf, written, drain, exe_exists, core_out, core_exit>>

\* wait4(pid, &status, 0, &usage): the child has ended and is reaped;
\* runProgram returns
Two_wait4(i) ==
    /\ two.inst[i].pc = "wait"
    /\ two' = [two EXCEPT !.members = @ \ {i}, !.inst = Goto(i, "cleanup")]
    /\ UNCHANGED <<ll, enc, fn, hist, argc, pc, limits, result, run_result,
                   fault, thrown, run_entered, cg, fds, child, out_buf,
                   err_buf, written, drain, exe_exists, core_out, core_exit>>

\* ~CgroupManager(): cleanup() (lines 408-416); rmdir removes the directory
\* when it exists and has no member
Two_cleanup(i) ==
    /\ two.inst[i].pc = "cleanup"
    /\ IF two.inst[i].created
       THEN two' = [two EXCEPT
                       !.rmdirs = @ \cup {i},
                       !.dir = IF two.members = {} THEN FALSE ELSE @,
                       !.owner = IF two.members = {} THEN 0 ELSE @,
                       !.inst[i] = [@ EXCEPT !.created = FALSE, !.pc = "done"]]
       ELSE two' = [two EXCEPT !.inst = Goto(i, "done")]
    /\ UNCHANGED <<ll, enc, fn, hist, argc, pc, limits, result, run_result,
                   fault, thrown, run_entered, cg, fds, child, out_buf,
                   err_buf, written, drain, exe_exists, core_out, core_exit>>

NextTwo ==
    \E i \in Instances :
        \/ Two_create(i)
        \/ Two_setMemoryLimit(i)
        \/ Two_setCpuLimit(i)
        \/ Two_fork(i)
        \/ Two_addProcess(i)
        \/ Two_wait4(i)
        \/ Two_cleanup(i)

SpecTwo == InitTwo /\ [][NextTwo]_vars

(***************************************************************************)
(* Properties.                                                             *)
(***************************************************************************)
\* judge_core has returned its result to main
Returned == argc = 4 /\ pc \in {"main_print", "exited"}

\* runProgram reaped the child with wait4 and classified its status
Classified == Returned /\ fault = "none" /\ ~thrown /\ child.state = "reaped"

\* C1: every sandbox fault of the run stage (create, memory.max, cpuset,
\* pipe, fork, enrollment, wait) yields a result with status SE and a
\* non-empty error_message.
C1_SandboxFaultIsSE ==
    (Returned /\ fault # "none") =>
        (result.status = "SE" /\ result.error_message # <<>>)

\* C2: in every result judge_core returns, status OK implies exit_code 0 and
\* time, memory and output length within their limits.
C2_OkWithinLimits ==
    (Returned /\ result.status = "OK") =>
        /\ result.exit_code = 0
        /\ result.time_used <= limits.time_limit
        /\ result.mem_used <= limits.memory_limit
        /\ result.output_len <= limits.output_limit

C2_Witness ==
    /\ Returned
    /\ result.status = "OK"
    /\ result.mem_used = limits.memory_limit
    /\ result.output_len = limits.output_limit

\* the reference decision tree of a clean exit
ReferenceTree(r, lim) ==
    IF r.time_used > lim.time_limit THEN "TLE"
    ELSE IF r.mem_used > lim.memory_limit THEN "MLE"
    ELSE IF r.output_len > lim.output_limit THEN "OLE"
    ELSE "OK"

\* C3: a child that exits with code 0 gets the verdict of the reference tree
\* (strict comparisons, TLE before MLE before OLE); a child that exits with
\* a non-zero code gets RE whatever its time, memory and output.
C3_ExitVerdict ==
    (Classified /\ child.kind = "exit") =>
        /\ child.code = 0 => result.status = ReferenceTree(result, limits)
        /\ child.code # 0 => result.status = "RE"
        /\ (/\ child.code = 0
            /\ result.time_used = limits.time_limit
            /\ result.mem_used = limits.memory_limit
            /\ result.output_len = limits.output_limit) => result.status = "OK"
        /\ (child.code = 0 /\ result.time_used > limits.time_limit)
               => result.status = "TLE"

C3_Witness ==
    /\ Classified
    /\ child.kind = "exit"
    /\ child.code = 0
    /\ result.time_used = limits.time_limit
    /\ result.mem_used = limits.memory_limit
    /\ result.output_len = limits.output_limit
    /\ result.status = "OK"

\* C4: a child terminated by signal s gets exit_code 128 + s and the verdict
\* TLE for SIGXCPU, MLE/TLE for SIGKILL and MLE/RE for SIGABRT by the memory
\* comparison, RE for every other signal; a normal exit reports the child's
\* exit status as exit_code.
C4_SignalVerdict ==
    /\ (Classified /\ child.kind = "signal") =>
          /\ result.exit_code = 128 + child.code
          /\ result.status =
                CASE child.code = SIGXCPU -> "TLE"
                  [] child.code = SIGKILL ->
                        IF result.mem_used > limits.memory_limit
                        THEN "MLE" ELSE "TLE"
                  [] child.code = SIGABRT ->
                        IF result.mem_used > limits.memory_limit
                        THEN "MLE" ELSE "RE"
                  [] OTHER -> "RE"
    /\ (Classified /\ child.kind = "exit") => result.exit_code = child.code

C4_Witness ==
    /\ Classified
    /\ child.kind = "signal"
    /\ child.code = SIGKILL
    /\ result.mem_used > limits.memory_limit
    /\ result.status = "MLE"
    /\ result.exit_code = 137

\* C5: a CE result means the run stage was never entered: no cgroup, no
\* pipe, no child, and mem_used = 0 and allocated_cpu = "".
C5_CompileErrorSkipsRun ==
    (Returned /\ result.status = "CE") =>
        /\ ~run_entered
        /\ cg = NewCgroup
        /\ fds = NoFds
        /\ child = NoChild
        /\ result.mem_used = 0
        /\ result.allocated_cpu = ""

C5_Witness ==
    /\ Returned
    /\ result.status = "CE"
    /\ result.error_message = <<"Compilation timeout">>
    /\ result.time_used > limits.compile_timeout

\* C6: when judge_core has returned, the compiled executable has been
\* unlinked, on every outcome.
C6_ExecutableUnlinked == Returned => ~exe_exists

\* C7: the core terminates for every behaviour of the user program.
C7_CoreTerminates == <>(pc = "exited")

\* C8: with three arguments exactly one result object is written, only after
\* judge_core returned, and the core exits with 0; with any other argument
\* count nothing is written and the core exits with 1.
C8_OneResultAtTheEnd ==
    /\ core_out > 0 => (pc = "exited" /\ argc = 4)
    /\ pc = "exited" =>
          IF argc = 4 THEN core_out = 1 /\ core_exit = 0
          ELSE core_out = 0 /\ core_exit = 1
    /\ pc # "exited" => core_exit = -1

C8_Witness ==
    /\ pc = "exited"
    /\ argc = 4
    /\ core_out = 1
    /\ core_exit = 0
    /\ result.status = "SE"

\* the natural number an int or long long holds, when it is not negative
NatOf(x) == Trim(x)
NonNegative(x) == x[Len(x)] < SignLimb

\* the value a field must get: its default unless the file can be opened and
\* gives the field a positive value v, then v * scale
Expected(form, file_open, default, scale) ==
    IF file_open /\ form.kind = "value" /\ BigOfDigits(form.digits, <<>>) # <<>>
    THEN BigMulAdd(BigOfDigits(form.digits, <<>>), scale, 0)
    ELSE NatOf(LLOfNat(default))

Holds(x, form, file_open, default, scale) ==
    NonNegative(x) /\ NatOf(x) = Expected(form, file_open, default, scale)

\* C9: whatever the file holds, every field of the record loadLimits returns
\* is strictly positive.
C9_LimitsPositive ==
    ll.pc = "returned" =>
        /\ IntPositive(ll.limits.time_limit)
        /\ LLPositive(ll.limits.memory_limit)
        /\ IntPositive(ll.limits.output_limit)
        /\ IntPositive(ll.limits.compile_timeout)
        /\ LLPositive(ll.limits.stack_limit)

\* C10: each field is decided on its own: the default when the key is
\* missing, the value is not a positive digit sequence or the file cannot be
\* opened; v (time_limit, output_limit, compile_timeout) or v * 1024
\* (memory_limit, stack_limit) for a positive value v.
C10_FieldsIndependent ==
    ll.pc = "returned" =>
        /\ Holds(ll.limits.time_limit, ll.forms.time_limit, ll.file_open,
                 1000, 1)
        /\ Holds(ll.limits.memory_limit, ll.forms.memory_limit, ll.file_open,
                 67108864, 1024)
        /\ Holds(ll.limits.output_limit, ll.forms.output_limit, ll.file_open,
                 64000000, 1)
        /\ Holds(ll.limits.compile_timeout, ll.forms.compile_timeout,
                 ll.file_open, 30000, 1)
        /\ Holds(ll.limits.stack_limit, ll.forms.stack_limit, ll.file_open,
                 8388608, 1024)

\* runProgram has returned or was left by an exception
RunLeft == run_entered /\ pc \in {"jc_unlink", "jc_catch", "main_print", "exited"}

\* C11: whenever the removal of the cgroup directory is attempted (rmdir in
\* cleanup, called by the destructor) on a path on which a child was forked,
\* that child has been reaped.
C11_ReapedBeforeRmdir ==
    [][cg'.rmdir_calls > cg.rmdir_calls => child'.state \in {"none", "reaped"}]_vars

\* C12: no path leaves runProgram with a live or unreaped child: after a
\* fault that follows the fork the child was killed and reaped.
C12_NoChildLeftBehind == RunLeft => child.state \in {"none", "reaped"}

C14_EarlyFaultFields ==
    (Returned /\ fault \in {"create", "memory_max", "cpuset", "pipe", "fork",
                            "enroll"}) =>
        /\ result.allocated_cpu = ""
        /\ result.exit_code = -1

\* the affinity warning is part of a message
HasWarning(msg) == \E i \in 1..Len(msg) : msg[i] = AffinityWarning

\* C15: a failed forceCpuBinding does not abort the run and does not change
\* the status, and the affinity warning is in the final error_message
\* whatever the verdict; with a successful binding and status OK the
\* error_message is empty.
C15_AffinityWarningKept ==
    Classified =>
        /\ result.status =
              Classify(RunInit, child.kind, child.code, result.time_used,
                       result.mem_used, 0, result.stdout_content, <<>>,
                       limits).status
        /\ hist.bind_failed => HasWarning(result.error_message)
        /\ (~hist.bind_failed /\ result.status = "OK")
               => result.error_message = <<>>

\* C16: stdout_content is the sequence of bytes the supervisor read from the
\* stdout pipe, zero bytes included, and output_len is their number.
C16_StdoutIsWhatWasRead ==
    Classified =>
        /\ result.stdout_content = hist.read_out
        /\ result.output_len = Len(hist.read_out)

\* --- a decoder of resultToJson's text: it reads the fields in order and
\* inverts the five escapes ---
\* the character an escape pair stands for
Unescape(c) ==
    CASE c = "n" -> "\n"
      [] c = "r" -> "\r"
      [] c = "t" -> "\t"
      [] OTHER -> c

\* the string that starts at position i and ends before the first quote
\* that is not escaped; next is the position of that quote
RECURSIVE DecodeString(_, _, _)
DecodeString(t, i, acc) ==
    IF i > Len(t) \/ t[i] = "\"" THEN [val |-> acc, next |-> i]
    ELSE IF t[i] = "\\" /\ i < Len(t)
    THEN DecodeString(t, i + 2, Append(acc, Unescape(t[i + 1])))
    ELSE DecodeString(t, i + 1, Append(acc, t[i]))

\* the position after the number that starts at position i
NumberEnd(t, i) ==
    CHOOSE j \in i..(Len(t) + 1) :
        /\ \A k \in i..(j - 1) : t[k] \in DigitSet \cup {"-"}
        /\ j = Len(t) + 1 \/ t[j] \notin DigitSet \cup {"-"}

RECURSIVE NatOfDecimal(_, _)
NatOfDecimal(ds, acc) ==
    IF ds = <<>> THEN acc
    ELSE NatOfDecimal(Tail(ds), 10 * acc + DigitVal(Head(ds)))

IntOfDecimal(ds) ==
    IF ds # <<>> /\ Head(ds) = "-" THEN 0 - NatOfDecimal(Tail(ds), 0)
    ELSE NatOfDecimal(ds, 0)

Decode(t) ==
    LET s1 == DecodeString(t, Len(JsonOpen) + 1, <<>>)
        p2 == s1.next + Len(JsonTime)
        e2 == NumberEnd(t, p2)
        p3 == e2 + Len(JsonMem)
        e3 == NumberEnd(t, p3)
        p4 == e3 + Len(JsonExit)
        e4 == NumberEnd(t, p4)
        s5 == DecodeString(t, e4 + Len(JsonError), <<>>)
        s6 == DecodeString(t, s5.next + Len(JsonStdout), <<>>)
        p7 == s6.next + Len(JsonLen)
        e7 == NumberEnd(t, p7)
        s8 == DecodeString(t, e7 + Len(JsonCpu), <<>>)
    IN  [status |-> s1.val,
         time_used |-> IntOfDecimal(SubSeq(t, p2, e2 - 1)),
         mem_used |-> IntOfDecimal(SubSeq(t, p3, e3 - 1)),
         exit_code |-> IntOfDecimal(SubSeq(t, p4, e4 - 1)),
         error_message |-> s5.val,
         stdout_content |-> s6.val,
         output_len |-> IntOfDecimal(SubSeq(t, p7, e7 - 1)),
         allocated_cpu |-> s8.val]

\* a JudgeResult with status and allocated_cpu as character sequences
AsChars(r) ==
    [r EXCEPT !.status = CharsOf(r.status),
              !.allocated_cpu = CharsOf(r.allocated_cpu)]

\* no two results have the same text
EncodingsDistinct ==
    Cardinality({resultToJson(r) : r \in JsonResults}) = Cardinality(JsonResults)

\* C17: decoding the text of resultToJson gives back every field of the
\* result, for every error_message and stdout_content over the alphabet of
\* quote, backslash, newline, carriage return, tab and a letter; two
\* different results never have the same text.
C17_JsonRoundTrip ==
    /\ enc.pc = "returned" => Decode(enc.text) = AsChars(enc.r)
    /\ EncodingsDistinct

C17_Witness ==
    /\ enc.pc = "returned"
    /\ enc.r.error_message = <<"\\", "n">>
    /\ enc.r.exit_code = -1
    /\ Decode(enc.text).error_message = <<"\\", "n">>
    /\ Decode(enc.text).exit_code = -1

\* the fields the catch block gives the result, but for exit_code
CaughtFields ==
    /\ result.status = "SE"
    /\ result.error_message = <<"System error: ", "e.what()">>
    /\ result.time_used = 0
    /\ result.mem_used = 0
    /\ result.output_len = 0
    /\ result.stdout_content = <<>>
    /\ result.allocated_cpu = ""

\* C18: an exception raised inside judge_core is caught there and gives
\* status SE, error_message "System error: " + detail, time_used, mem_used,
\* output_len and exit_code 0, and empty stdout_content and allocated_cpu.
C18_CaughtIsZeroed ==
    /\ thrown => pc \in {"jc_catch", "main_print", "exited"}
    /\ (Returned /\ thrown) => (CaughtFields /\ result.exit_code = 0)

\* C18 as amended: the same with exit_code = -1.
C18_CaughtIsSE ==
    /\ thrown => pc \in {"jc_catch", "main_print", "exited"}
    /\ (Returned /\ thrown) => (CaughtFields /\ result.exit_code = -1)

C18_Witness ==
    /\ Returned
    /\ thrown
    /\ run_entered
    /\ child.state # "none"
    /\ result.status = "SE"
    /\ result.exit_code = -1

\* C19: when runProgram is left, on any path, the supervisor holds no open
\* pipe descriptor.
C19_PipesClosed ==
    RunLeft => \A d \in DOMAIN fds : fds[d] # "open"

\* C20: the user program never runs after a call between fork and exec has
\* failed: such a failure ends the child with exit code 1, so every
\* redirection and every rlimit is in place when the program starts.
C20_ChildSetupChecked ==
    /\ child.state \in {"running", "blocked"} => child.failed = {}
    /\ child.failed # {} => (child.kind = "exit" /\ child.code = 1)

\* C21: in the drain loop a pipe is marked done when select reports it not
\* readable or when a read on it returns 0 or less; bytes are appended only
\* while the pipe is not done; the loop ends exactly when both pipes are done
\* or select returns 0 or less.
C21_DrainLoop ==
    [][/\ RunProgram_select =>
             /\ (~drain.stdout_done /\ ~Readable(out_buf)) => drain'.stdout_done
             /\ (~drain.stderr_done /\ ~Readable(err_buf)) => drain'.stderr_done
             /\ (~drain.stdout_done /\ Readable(out_buf) /\ out_buf = <<>>)
                    => drain'.stdout_done
             /\ (~drain.stderr_done /\ Readable(err_buf) /\ err_buf = <<>>)
                    => drain'.stderr_done
             /\ drain.stdout_done
                    => (drain'.stdout_output = drain.stdout_output /\ out_buf' = out_buf)
             /\ drain.stderr_done
                    => (drain'.stderr_output = drain.stderr_output /\ err_buf' = err_buf)
             /\ pc' = "run_closer" <=> (drain'.stdout_done /\ drain'.stderr_done)
       /\ (pc = "run_drain" /\ pc' = "run_closer") =>
             \/ drain'.stdout_done /\ drain'.stderr_done
             \/ RunProgram_selectBreak]_vars

\* C21 as amended: a pipe is marked done exactly when a read on it returns 0
\* or less (a pipe select reports not readable stays as it is); the rest as
\* claimed.
C21_DrainLoopReadMarksDone ==
    [][/\ RunProgram_select =>
             /\ drain'.stdout_done <=>
                    (drain.stdout_done \/ (Readable(out_buf) /\ out_buf = <<>>))
             /\ drain'.stderr_done <=>
                    (drain.stderr_done \/ (Readable(err_buf) /\ err_buf = <<>>))
             /\ drain.stdout_done
                    => (drain'.stdout_output = drain.stdout_output /\ out_buf' = out_buf)
             /\ drain.stderr_done
                    => (drain'.stderr_output = drain.stderr_output /\ err_buf' = err_buf)
             /\ pc' = "run_closer" <=> (drain'.stdout_done /\ drain'.stderr_done)
       /\ (pc = "run_drain" /\ pc' = "run_closer") =>
             \/ drain'.stdout_done /\ drain'.stderr_done
             \/ RunProgram_selectBreak]_vars

\* stderr is done, stdout is not and has delivered bytes: the loop goes on
C21_Witness ==
    /\ pc = "run_drain"
    /\ drain.stderr_done
    /\ ~drain.stdout_done
    /\ drain.stdout_output # <<>>

\* the child has more to write to a pipe that is full and whose read end is
\* open: its write blocks
WriteBlocks ==
    \/ written.out < MaxOut /\ Len(out_buf) >= PipeCap /\ fds.out_r # "closed"
    \/ written.err < MaxErr /\ Len(err_buf) >= PipeCap /\ fds.err_r # "closed"

\* C22: the supervisor has been through the drain loop and has closed both
\* read ends before it blocks in wait4, so it is never in wait4 while a write
\* of the child blocks on a full pipe: such a write fails.
C22_NoPipeDeadlock ==
    pc = "run_wait" =>
        /\ fds.out_w = "closed" /\ fds.err_w = "closed"
        /\ fds.out_r = "closed" /\ fds.err_r = "closed"
        /\ ~(child.state = "running" /\ WriteBlocks)

\* supervisor in wait4, child running with a full stdout pipe and more to
\* write
C22_Witness ==
    /\ pc = "run_wait"
    /\ child.state = "running"
    /\ Len(out_buf) = PipeCap
    /\ written.out < MaxOut
    /\ fds.out_r = "closed"

\* ceil(t / 1000) for a positive t
CeilSeconds(t) == (t \div 1000) + (IF t % 1000 = 0 THEN 0 ELSE 1)

\* C23: for every positive int time_limit the soft RLIMIT_CPU is
\* ceil(time_limit / 1000), the hard limit is soft + 1 and the deadline of
\* select is ceil(time_limit / 1000) + 1; the expression does not overflow.
C23_CpuCapIsCeil ==
    /\ fn.pc # "aborted"
    /\ fn.pc = "returned" =>
          /\ ~fn.set.ub
          /\ fn.set.rlim_cur = LLOfNat(CeilSeconds(fn.time_limit))
          /\ fn.set.rlim_max = LLOfNat(CeilSeconds(fn.time_limit) + 1)
          /\ fn.set.tv_sec = CeilSeconds(fn.time_limit) + 1

Collided == {i \in Instances : two.inst[i].eexist}

\* C25: an instance whose create() fails because the path exists never writes
\* a file of the node, never forks and never calls rmdir on it, and its
\* created flag stays false; every write to the node and every rmdir is by
\* the instance whose mkdir made the node.
C25_LoserNeverTouchesNode ==
    two.pc = "run" =>
        /\ \A i \in Collided :
              /\ ~two.inst[i].created
              /\ i \notin two.forked
              /\ i \notin two.rmdirs
              /\ \A w \in two.writes : w.by # i
        /\ \A w \in two.writes : w.owner = w.by
        /\ \A i \in Instances :
              two.inst[i].created => two.dir /\ two.owner = i

\* one instance ended on the existing path while the other had configured
\* the node and enrolled its child
C25_Witness ==
    /\ two.pc = "run"
    /\ \E i \in Collided, j \in Instances :
          /\ two.inst[i].pc = "done"
          /\ j # i
          /\ j \in two.members
          /\ [by |-> j, file |-> "memory.max", owner |-> j] \in two.writes

\* memory.max, cpuset.cpus and cpuset.mems have been written successfully
Configured == cg.memory_max /\ cg.cpuset_cpus /\ cg.cpuset_mems

\* C26: the node's memory.max, cpuset.cpus and cpuset.mems are written
\* successfully before fork, and cgroup.procs is written at most once, by
\* addProcess with the forked child's pid; so whenever a child was forked or
\* a process is a member of the node, the node is configured.
C26_ConfiguredBeforeMember ==
    /\ []((child.state # "none" \/ cg.procs) => Configured)
    /\ [][cg'.procs # cg.procs =>
             /\ RunProgram_addProcess
             /\ ~cg.procs
             /\ child.state # "none"]_vars

\* the child of runProgram runs as a member of the configured node
C26_Witness ==
    /\ cg.procs
    /\ child.state = "running"
    /\ Configured
    /\ cg.dir

====
